---- MODULE Spec2Model ----
(***************************************************************************)
(* Model of src/main.py (Telegram-CIDR-Regions): concurrent fetch of the   *)
(* announced prefixes of every ASN, the cross-region ownership resolver of *)
(* gather_prefixes, the per-region merge of split_and_merge and the output *)
(* of one file per region.                                                 *)
(*                                                                         *)
(* Addresses are scaled down: an IPv4 address has BitsV4 bits and an IPv6  *)
(* address BitsV6 bits (32 and 128 in netaddr).  A prefix string is the    *)
(* tuple <<version, address, prefix length>> of what it spells; a network  *)
(* (netaddr.IPNetwork) is a record that keeps the address as written, host *)
(* bits included, as netaddr does.                                         *)
(***************************************************************************)
EXTENDS Integers, Sequences, FiniteSets, TLC

\* ------------------------------------------------------------------ bounds
BitsV4 == 1
BitsV6 == 0
MaxEntries == 3

\* ------------------------------------------------------- program constants
REGION_ASNS == [SG |-> <<44907, 62014>>, US |-> <<59930>>, EU |-> <<62041, 211157>>]

\* dict iteration order of REGION_ASNS (insertion order)
RegionOrder == <<"SG", "US", "EU">>

Regions == {RegionOrder[i] : i \in DOMAIN RegionOrder}

ASNs == UNION {{REGION_ASNS[r][i] : i \in DOMAIN REGION_ASNS[r]} : r \in Regions}

RegionOf(asn) == CHOOSE r \in Regions : \E i \in DOMAIN REGION_ASNS[r] : REGION_ASNS[r][i] = asn

max_retries == 3

\* --------------------------------------------------------------- arithmetic
RECURSIVE Pow2(_)
Pow2(n) == IF n <= 0 THEN 1 ELSE 2 * Pow2(n - 1)

Min(a, b) == IF a <= b THEN a ELSE b

RECURSIVE Concat(_)
Concat(ss) == IF ss = <<>> THEN <<>> ELSE Head(ss) \o Concat(Tail(ss))

Reverse(s) == [i \in 1..Len(s) |-> s[Len(s) + 1 - i]]

Range(s) == {s[i] : i \in DOMAIN s}

\* ---------------------------------------------------------- netaddr values
width(version) == IF version = 4 THEN BitsV4 ELSE BitsV6

Net(version, value, prefixlen) == [version |-> version, value |-> value, prefixlen |-> prefixlen]

\* IPNetwork.first / IPNetwork.network: the address with its host bits zeroed
first(n) == n.value - (n.value % Pow2(width(n.version) - n.prefixlen))

\* IPNetwork.last
last(n) == first(n) + Pow2(width(n.version) - n.prefixlen) - 1

\* IPNetwork.cidr
cidr(n) == Net(n.version, first(n), n.prefixlen)

\* the addresses of a network, tagged with the family
Addrs(n) == {<<n.version, a>> : a \in first(n)..last(n)}

\* IPNetwork(prefix) raises AddrFormatError
IPNetworkRaises(s) ==
    ~ (/\ Len(s) = 3
       /\ s[1] \in {4, 6}
       /\ s[2] \in 0..(Pow2(width(s[1])) - 1)
       /\ s[3] \in 0..width(s[1]))

\* IPNetwork(prefix) of a well-formed string: the address is kept as written
IPNetwork(s) == Net(s[1], s[2], s[3])

\* str(network)
Str(n) == <<n.version, n.value, n.prefixlen>>

\* `other in net` for two IPNetwork values
Contains(net, other) ==
    /\ net.version = other.version
    /\ net.value \div Pow2(width(net.version) - net.prefixlen)
         = other.value \div Pow2(width(net.version) - net.prefixlen)
    /\ net.prefixlen <= other.prefixlen

\* netaddr.cidr_partition: the loop that halves the target around exclude
RECURSIVE PartitionLoop(_, _, _, _, _, _)
PartitionLoop(exclude, new_prefixlen, i_lower, i_upper, left, right) ==
    IF exclude.prefixlen >= new_prefixlen
    THEN LET w == width(exclude.version)
             goLeft == first(exclude) >= i_upper
             left2 == IF goLeft
                      THEN Append(left, Net(exclude.version, i_lower, new_prefixlen))
                      ELSE left
             right2 == IF goLeft
                       THEN right
                       ELSE Append(right, Net(exclude.version, i_upper, new_prefixlen))
             matched == IF goLeft THEN i_upper ELSE i_lower
         IN  IF new_prefixlen + 1 > w
             THEN [left |-> left2, right |-> right2]
             ELSE PartitionLoop(exclude, new_prefixlen + 1, matched,
                                matched + Pow2(w - (new_prefixlen + 1)), left2, right2)
    ELSE [left |-> left, right |-> right]

\* netaddr.cidr_partition(target, exclude): blocks before, the excluded, blocks after
cidr_partition(target, exclude) ==
    IF last(exclude) < first(target)
    THEN [left |-> <<>>, mid |-> <<>>, right |-> <<cidr(target)>>]
    ELSE IF last(target) < first(exclude)
    THEN [left |-> <<cidr(target)>>, mid |-> <<>>, right |-> <<>>]
    ELSE IF target.prefixlen >= exclude.prefixlen
    THEN [left |-> <<>>, mid |-> <<target>>, right |-> <<>>]
    ELSE LET w == width(target.version)
             r == PartitionLoop(exclude, target.prefixlen + 1, first(target),
                                first(target) + Pow2(w - (target.prefixlen + 1)),
                                <<>>, <<>>)
         IN  [left |-> r.left, mid |-> <<exclude>>, right |-> Reverse(r.right)]

\* cidr_exclude that loses the blocks after the excluded one
cidr_exclude_left_only(target, exclude) ==
    cidr_partition(target, exclude).left

\* netaddr.cidr_exclude(target, exclude)
cidr_exclude(target, exclude) ==
    LET p == cidr_partition(target, exclude) IN p.left \o p.right

\* -------------------------------------------------------- ownership resolver
Entry(net, region, asn) == [net |-> net, region |-> region, asn |-> asn]

\* a sort key with the prefix length ascending: (version, prefixlen, int(network))
KeyLessLeastSpecificFirst(x, y) ==
    \/ x.net.version < y.net.version
    \/ /\ x.net.version = y.net.version
       /\ \/ x.net.prefixlen < y.net.prefixlen
          \/ /\ x.net.prefixlen = y.net.prefixlen
             /\ first(x.net) < first(y.net)

\* the sort key (version, -prefixlen, int(network)), compared as Python tuples
KeyLess(x, y) ==
    \/ x.net.version < y.net.version
    \/ /\ x.net.version = y.net.version
       /\ \/ x.net.prefixlen > y.net.prefixlen
          \/ /\ x.net.prefixlen = y.net.prefixlen
             /\ first(x.net) < first(y.net)

\* list.sort is stable: an element goes after every element whose key is not greater
RECURSIVE InsertSorted(_, _)
InsertSorted(sorted, e) ==
    IF sorted = <<>> THEN <<e>>
    ELSE IF KeyLess(e, Head(sorted)) THEN <<e>> \o sorted
    ELSE <<Head(sorted)>> \o InsertSorted(Tail(sorted), e)

RECURSIVE SortNetworks(_)
SortNetworks(seq) ==
    IF seq = <<>> THEN <<>>
    ELSE InsertSorted(SortNetworks(SubSeq(seq, 1, Len(seq) - 1)), seq[Len(seq)])

\* an overlap test that forgets the region: settled entries inside the candidate
OverlappingNetsAnyRegion(final, cand) ==
    LET Test(e) == /\ cand.net.version = e.net.version
                   /\ Contains(cand.net, e.net)
    IN  SelectSeq(final, Test)

\* overlapping_nets of a candidate: settled entries inside it, of another region
OverlappingNets(final, cand) ==
    LET Test(e) == /\ cand.net.version = e.net.version
                   /\ Contains(cand.net, e.net)
                   /\ e.region # cand.region
    IN  SelectSeq(final, Test)

\* one pass of the inner loop: exclude overlap_net from every remaining block
ExcludeFrom(remaining_nets, overlap_net) ==
    Concat([i \in 1..Len(remaining_nets) |->
              IF Contains(remaining_nets[i], overlap_net)
              THEN cidr_exclude(remaining_nets[i], overlap_net)
              ELSE <<remaining_nets[i]>>])

RECURSIVE RemainingNets(_, _)
RemainingNets(remaining_nets, overlapping_nets) ==
    IF overlapping_nets = <<>> THEN remaining_nets
    ELSE RemainingNets(ExcludeFrom(remaining_nets, Head(overlapping_nets).net),
                       Tail(overlapping_nets))

\* an iteration that files the remainder blocks under the region and ASN of the
\* first overlapping entry
ResolveOneKeepsOverlapRegion(final, cand) ==
    LET overlapping_nets == OverlappingNets(final, cand)
        remaining_nets == RemainingNets(<<cand.net>>, overlapping_nets)
    IN  IF overlapping_nets # <<>>
        THEN final \o [i \in 1..Len(remaining_nets) |->
                          Entry(remaining_nets[i], Head(overlapping_nets).region,
                                Head(overlapping_nets).asn)]
        ELSE Append(final, cand)

\* one iteration of the loop over all_networks
ResolveOne(final, cand) ==
    LET overlapping_nets == OverlappingNets(final, cand)
        remaining_nets == RemainingNets(<<cand.net>>, overlapping_nets)
    IN  IF overlapping_nets # <<>>
        THEN final \o [i \in 1..Len(remaining_nets) |->
                          Entry(remaining_nets[i], cand.region, cand.asn)]
        ELSE Append(final, cand)

RECURSIVE Resolve(_, _)
Resolve(final, candidates) ==
    IF candidates = <<>> THEN final
    ELSE Resolve(ResolveOne(final, Head(candidates)), Tail(candidates))

\* the distribution of final_networks over region_prefixes, as strings
RegionPrefixes(final) ==
    [r \in Regions |->
        LET Mine(e) == e.region = r
            mine == SelectSeq(final, Mine)
        IN  [i \in 1..Len(mine) |-> Str(mine[i].net)]]

\* ------------------------------------------------------------ region merger
RangeOf(n) == [version |-> n.version, last |-> last(n), first |-> first(n),
               merged |-> FALSE, net |-> n]

\* tuple order of (version, last, first)
RangeLess(x, y) ==
    \/ x.version < y.version
    \/ /\ x.version = y.version
       /\ \/ x.last < y.last
          \/ x.last = y.last /\ x.first < y.first

RECURSIVE InsertRange(_, _)
InsertRange(sorted, e) ==
    IF sorted = <<>> THEN <<e>>
    ELSE IF RangeLess(e, Head(sorted)) THEN <<e>> \o sorted
    ELSE <<Head(sorted)>> \o InsertRange(Tail(sorted), e)

RECURSIVE SortRanges(_)
SortRanges(seq) ==
    IF seq = <<>> THEN <<>>
    ELSE InsertRange(SortRanges(SubSeq(seq, 1, Len(seq) - 1)), seq[Len(seq)])

\* a merge test that joins overlapping ranges but not adjacent ones
MergeableOverlapOnly(hi, lo) == hi.version = lo.version /\ hi.first <= lo.last

\* netaddr.cidr_merge: a range touches or overlaps the one sorted before it
Mergeable(hi, lo) == hi.version = lo.version /\ hi.first - 1 <= lo.last

\* netaddr.cidr_merge: the backward loop that joins ranges
RECURSIVE MergeLoop(_, _)
MergeLoop(ranges, i) ==
    IF i < 2 THEN ranges
    ELSE IF Mergeable(ranges[i], ranges[i - 1])
    THEN MergeLoop(SubSeq(ranges, 1, i - 2)
                     \o <<[version |-> ranges[i].version, last |-> ranges[i].last,
                           first |-> Min(ranges[i - 1].first, ranges[i].first),
                           merged |-> TRUE, net |-> ranges[i].net]>>
                     \o SubSeq(ranges, i + 1, Len(ranges)),
                   i - 1)
    ELSE MergeLoop(ranges, i - 1)

\* netaddr.spanning_cidr of two addresses lowest <= ipnum
RECURSIVE SpanLoop(_, _, _, _)
SpanLoop(version, ipnum, prefixlen, lowest) ==
    IF prefixlen > 0 /\ ipnum > lowest
    THEN LET size == Pow2(width(version) - (prefixlen - 1))
         IN  SpanLoop(version, ipnum - (ipnum % size), prefixlen - 1, lowest)
    ELSE Net(version, ipnum, prefixlen)

spanning_cidr(version, lowest, highest) ==
    SpanLoop(version, highest, width(version), lowest)

\* netaddr.iprange_to_cidrs(start, end)
iprange_to_cidrs(version, start, end) ==
    LET w == width(version)
        span0 == spanning_cidr(version, start, end)
        cut == first(span0) < start
        list1 == IF cut
                 THEN cidr_partition(span0, Net(version, start - 1, w)).right
                 ELSE <<>>
        span1 == IF cut THEN list1[Len(list1)] ELSE span0
        list2 == IF cut THEN SubSeq(list1, 1, Len(list1) - 1) ELSE <<>>
    IN  IF last(span1) > end
        THEN list2 \o cidr_partition(span1, Net(version, end + 1, w)).left
        ELSE Append(list2, span1)

\* netaddr.cidr_merge(networks)
cidr_merge(networks) ==
    LET ranges == SortRanges([i \in 1..Len(networks) |-> RangeOf(networks[i])])
        joined == MergeLoop(ranges, Len(ranges))
    IN  Concat([i \in 1..Len(joined) |->
                  IF joined[i].merged
                  THEN iprange_to_cidrs(joined[i].version, joined[i].first, joined[i].last)
                  ELSE <<cidr(joined[i].net)>>])

\* the parse loop of split_and_merge: invalid strings are skipped
ParsedOfVersion(prefixes, version) ==
    LET Ok(s) == ~ IPNetworkRaises(s) /\ IPNetwork(s).version = version
        kept == SelectSeq(prefixes, Ok)
    IN  [i \in 1..Len(kept) |-> IPNetwork(kept[i])]

split_and_merge(prefixes) ==
    [v4 |-> cidr_merge(ParsedOfVersion(prefixes, 4)),
     v6 |-> cidr_merge(ParsedOfVersion(prefixes, 6))]

\* sorted(networks, key=(version, int(network))), stable
NetLess(x, y) ==
    \/ x.version < y.version
    \/ x.version = y.version /\ first(x) < first(y)

RECURSIVE InsertNet(_, _)
InsertNet(sorted, n) ==
    IF sorted = <<>> THEN <<n>>
    ELSE IF NetLess(n, Head(sorted)) THEN <<n>> \o sorted
    ELSE <<Head(sorted)>> \o InsertNet(Tail(sorted), n)

RECURSIVE sort_networks(_)
sort_networks(networks) ==
    IF networks = <<>> THEN <<>>
    ELSE InsertNet(sort_networks(SubSeq(networks, 1, Len(networks) - 1)),
                   networks[Len(networks)])

\* the block lines of the file write_region_file writes for a region
RegionFile(merged) ==
    LET v4 == sort_networks(merged.v4)
        v6 == sort_networks(merged.v6)
    IN  [v4 |-> [i \in 1..Len(v4) |-> Str(v4[i])],
         v6 |-> [i \in 1..Len(v6) |-> Str(v6[i])]]

\* what main writes for every region, from a list of entries in arrival order
Pipeline(entries) ==
    LET rp == RegionPrefixes(Resolve(<<>>, SortNetworks(entries)))
    IN  [r \in Regions |-> RegionFile(split_and_merge(rp[r]))]

\* ------------------------------------------------------------------- fetcher
\* what an attempt can raise: HTTP or transport error or timeout, undecodable
\* JSON, and a decoded payload without the expected shape (data.get on a list)
Exceptions == {"RequestException", "ValueError", "AttributeError"}

\* except (requests.RequestException, ValueError) in fetch_prefixes
CaughtByFetch(exc) == exc \in {"RequestException", "ValueError"}

\* a handler around future.result() as narrow as the one of fetch_prefixes
CaughtByGatherNarrow(exc) == exc \in {"RequestException", "ValueError"}

\* except Exception around future.result() in gather_prefixes
CaughtByGather(exc) == TRUE

\* [p.get("prefix") for p in prefixes if p.get("prefix")]: empty strings are dropped
Extracted(payload) ==
    LET Truthy(s) == s # <<>> IN SelectSeq(payload, Truthy)

\* a collection loop without the inner try: the first invalid prefix ends the list
RECURSIVE ResultEntriesUntilInvalid(_, _, _)
ResultEntriesUntilInvalid(region, asn, result) ==
    IF result = <<>> \/ IPNetworkRaises(Head(result)) THEN <<>>
    ELSE <<Entry(IPNetwork(Head(result)), region, asn)>>
           \o ResultEntriesUntilInvalid(region, asn, Tail(result))

\* the entries the collection loop appends for one fetched list
ResultEntries(region, asn, result) ==
    LET Ok(s) == ~ IPNetworkRaises(s)
        kept == SelectSeq(result, Ok)
    IN  [i \in 1..Len(kept) |-> Entry(IPNetwork(kept[i]), region, asn)]

\* a loop that ends as soon as one future has been yielded
AnyCompleted(coll) == coll # {}

\* as_completed has yielded every future
AsCompletedExhausted(coll) == coll = ASNs

Running(n) == [state |-> "running", attempt |-> n, result |-> <<>>, exc |-> ""]

Returned(result) == [state |-> "returned", attempt |-> 0, result |-> result, exc |-> ""]

Raised(exc) == [state |-> "raised", attempt |-> 0, result |-> <<>>, exc |-> exc]

\* the state of a fetch task after an attempt that raises exc
AfterFailure(f, exc) ==
    IF CaughtByFetch(exc)
    THEN IF f.attempt < max_retries THEN Running(f.attempt + 1) ELSE Returned(<<>>)
    ELSE Raised(exc)

\* an entry of the log of one call: a requests.get with its outcome, or a time.sleep
GetEvent(attempt, exc, payload) ==
    [kind |-> "get", attempt |-> attempt, exc |-> exc, payload |-> payload,
     seconds |-> 0]

SleepEvent(attempt, seconds) ==
    [kind |-> "sleep", attempt |-> attempt, exc |-> "", payload |-> <<>>,
     seconds |-> seconds]

\* wait_seconds = 2 ** (attempt - 1)
wait_seconds(attempt) == Pow2(attempt - 1)

\* a handler that sleeps after every failed attempt
SleepsAfterEveryFailure(attempt) == TRUE

\* if attempt < max_retries: time.sleep(wait_seconds)
SleepsBeforeRetry(attempt) == attempt < max_retries

\* no call of fetch_prefixes is followed
NoCall == [asn |-> 0, attempt |-> 0, state |-> "idle", result |-> <<>>, log |-> <<>>]

\* fetch_prefixes(asn) entered: the first iteration of the loop over the attempts
Called(asn) ==
    [asn |-> asn, attempt |-> 1, state |-> "requesting", result |-> <<>>, log |-> <<>>]

\* prefix strings of the registry: the lower and the upper half of the IPv4
\* space, the whole space written with host bits set, and strings IPNetwork rejects
LowerHalf == <<4, 0, 1>>

UpperHalf == <<4, Pow2(BitsV4 - 1), 1>>

WholeV4 == <<4, 0, 0>>

WholeV4HostBits == <<4, Pow2(BitsV4) - 1, 0>>

WholeV6 == <<6, 0, 0>>

BadPrefixLen == <<4, 0, BitsV4 + BitsV6 + 8>>

BadVersion == <<7, 0, 0>>

BadShape == <<9, 9>>

\* what the registry announces for every ASN during one run
Scenarios ==
    { [a \in ASNs |->
         CASE a = 44907 -> <<LowerHalf, BadPrefixLen, WholeV6>>
           [] a = 62014 -> <<UpperHalf>>
           [] a = 59930 -> <<WholeV4, <<>>, WholeV6>>
           [] a = 62041 -> <<WholeV4HostBits>>
           [] OTHER     -> <<>>],
      [a \in ASNs |->
         CASE a = 44907 -> <<BadVersion>>
           [] a = 62014 -> <<LowerHalf>>
           [] a = 59930 -> <<WholeV6>>
           [] a = 62041 -> <<BadShape, WholeV6, WholeV4>>
           [] OTHER     -> <<UpperHalf>>] }

\* -------------------------------------------------------------------- state
VARIABLES announced, fut, collected, all_networks, final_networks, idx,
          region_prefixes, ridx, written, pc, call

vars == <<announced, fut, collected, all_networks, final_networks, idx,
          region_prefixes, ridx, written, pc, call>>

\* every task submitted, nothing collected
Init ==
    /\ announced \in Scenarios
    /\ fut = [a \in ASNs |-> Running(1)]
    /\ collected = {}
    /\ all_networks = <<>>
    /\ final_networks = <<>>
    /\ idx = 1
    /\ region_prefixes = [r \in Regions |-> <<>>]
    /\ ridx = 1
    /\ written = [r \in Regions |-> <<>>]
    /\ pc = "collect"
    /\ call = NoCall

\* an attempt of fetch_prefixes(a) succeeds
AttemptOk(a) ==
    /\ fut[a].state = "running"
    /\ fut' = [fut EXCEPT ![a] = Returned(Extracted(announced[a]))]
    /\ UNCHANGED <<call, announced, collected, all_networks, final_networks, idx,
                   region_prefixes, ridx, written, pc>>

\* an attempt of fetch_prefixes(a) raises
AttemptFails(a) ==
    /\ fut[a].state = "running"
    /\ \E exc \in Exceptions : fut' = [fut EXCEPT ![a] = AfterFailure(fut[a], exc)]
    /\ UNCHANGED <<call, announced, collected, all_networks, final_networks, idx,
                   region_prefixes, ridx, written, pc>>

\* one iteration of the as_completed loop
Collect(a) ==
    /\ pc = "collect"
    /\ a \notin collected
    /\ fut[a].state \in {"returned", "raised"}
    /\ collected' = collected \cup {a}
    /\ IF fut[a].state = "raised"
       THEN /\ pc' = IF CaughtByGather(fut[a].exc) THEN pc ELSE "aborted"
            /\ UNCHANGED all_networks
       ELSE /\ all_networks' = all_networks \o ResultEntries(RegionOf(a), a, fut[a].result)
            /\ UNCHANGED pc
    /\ UNCHANGED <<call, announced, fut, final_networks, idx, region_prefixes, ridx, written>>

\* all_networks.sort(...) once the as_completed loop has ended
Sort ==
    /\ pc = "collect"
    /\ AsCompletedExhausted(collected)
    /\ all_networks' = SortNetworks(all_networks)
    /\ pc' = "resolve"
    /\ UNCHANGED <<call, announced, fut, collected, final_networks, idx, region_prefixes,
                   ridx, written>>

\* a loop over the candidates that never ends
NeverExhausted(i, candidates) == FALSE

\* the for loop over all_networks has no candidate left
Exhausted(i, candidates) == i > Len(candidates)

\* one iteration of the loop over the sorted all_networks
ResolveStep ==
    /\ pc = "resolve"
    /\ idx <= Len(all_networks)
    /\ final_networks' = ResolveOne(final_networks, all_networks[idx])
    /\ idx' = idx + 1
    /\ UNCHANGED <<call, announced, fut, collected, all_networks, region_prefixes, ridx,
                   written, pc>>

\* the loop that fills region_prefixes, and the return of gather_prefixes
Distribute ==
    /\ pc = "resolve"
    /\ Exhausted(idx, all_networks)
    /\ region_prefixes' = RegionPrefixes(final_networks)
    /\ pc' = "write"
    /\ UNCHANGED <<call, announced, fut, collected, all_networks, final_networks, idx,
                   ridx, written>>

\* one iteration of the loop of main: merge a region and write its file
ProcessRegion ==
    /\ pc = "write"
    /\ ridx <= Len(RegionOrder)
    /\ LET region == RegionOrder[ridx]
       IN  written' = [written EXCEPT ![region] =
                          Append(@, RegionFile(split_and_merge(region_prefixes[region])))]
    /\ ridx' = ridx + 1
    /\ pc' = IF ridx = Len(RegionOrder) THEN "done" ELSE "write"
    /\ UNCHANGED <<call, announced, fut, collected, all_networks, final_networks, idx,
                   region_prefixes>>

Next ==
    \/ \E a \in ASNs : AttemptOk(a)
    \/ \E a \in ASNs : AttemptFails(a)
    \/ \E a \in ASNs : Collect(a)
    \/ Sort
    \/ ResolveStep
    \/ Distribute
    \/ ProcessRegion

Spec == Init /\ [][Next]_vars

\* ---------------------------------------------- the resolver on bounded input
\* the ASN an entry of a region is tagged with (it only appears in log lines)
AsnOf(region) == REGION_ASNS[region][1]

\* every network of a family, host bits zeroed
NetsOfVersion(version) ==
    {Net(version, base * Pow2(width(version) - len), len) :
        len \in 0..width(version), base \in 0..(Pow2(width(version)) - 1)}
    \cap {n \in [version : {version}, value : 0..(Pow2(width(version)) - 1),
                 prefixlen : 0..width(version)] : first(n) = n.value}

AllNets == NetsOfVersion(4) \cup NetsOfVersion(6)

AllEntries == {Entry(n, r, AsnOf(r)) : n \in AllNets, r \in Regions}

\* the entries of one future are appended together
Contiguous(seq) ==
    \A i, j, k \in DOMAIN seq : (i < j /\ j < k /\ seq[i].asn = seq[k].asn) => seq[j].asn = seq[i].asn

ArrivalLists ==
    {seq \in UNION {[1..n -> AllEntries] : n \in 0..MaxEntries} : Contiguous(seq)}

\* the strings a returned future held for the entries of its ASN
StringsOf(seq, asn) ==
    LET Mine(e) == e.asn = asn
        mine == SelectSeq(seq, Mine)
    IN  [i \in 1..Len(mine) |-> Str(mine[i].net)]

\* the as_completed loop has ended with some list of entries
InitResolver ==
    /\ all_networks \in ArrivalLists
    /\ announced = [a \in ASNs |-> StringsOf(all_networks, a)]
    /\ fut = [a \in ASNs |-> Returned(announced[a])]
    /\ collected = ASNs
    /\ final_networks = <<>>
    /\ idx = 1
    /\ region_prefixes = [r \in Regions |-> <<>>]
    /\ ridx = 1
    /\ written = [r \in Regions |-> <<>>]
    /\ pc = "collect"
    /\ call = NoCall

NextResolver ==
    \/ Sort
    \/ ResolveStep
    \/ Distribute
    \/ ProcessRegion

SpecResolver == InitResolver /\ [][NextResolver]_vars

\* the control of main after the as_completed loop: the sort, one iteration of
\* the candidate loop, its exit, one iteration of the loop over the regions
MainAdvances ==
    \/ /\ pc = "collect" /\ AsCompletedExhausted(collected)
       /\ pc' = "resolve" /\ UNCHANGED <<idx, ridx>>
    \/ /\ pc = "resolve" /\ idx <= Len(all_networks)
       /\ idx' = idx + 1 /\ UNCHANGED <<pc, ridx>>
    \/ /\ pc = "resolve" /\ Exhausted(idx, all_networks)
       /\ pc' = "write" /\ UNCHANGED <<idx, ridx>>
    \/ /\ pc = "write" /\ ridx <= Len(RegionOrder)
       /\ ridx' = ridx + 1
       /\ pc' = IF ridx = Len(RegionOrder) THEN "done" ELSE "write"
       /\ UNCHANGED idx

\* main is sequential code without blocking calls after the join: it keeps running
SpecResolverFair == InitResolver /\ [][NextResolver]_vars /\ WF_<<pc, idx, ridx>>(MainAdvances)

\* ------------------------------------------- one call of fetch_prefixes
\* the "prefixes" list of a response body: nothing, one prefix, an entry without
\* a prefix string before a prefix
Payloads == {<<>>, <<LowerHalf>>, <<<<>>, UpperHalf>>}

\* fetch_prefixes(asn) is called for one of the ASNs; nothing else runs
InitFetch ==
    /\ call \in {Called(a) : a \in ASNs}
    /\ announced = [a \in ASNs |-> <<>>]
    /\ fut = [a \in ASNs |-> Running(1)]
    /\ collected = {}
    /\ all_networks = <<>>
    /\ final_networks = <<>>
    /\ idx = 1
    /\ region_prefixes = [r \in Regions |-> <<>>]
    /\ ridx = 1
    /\ written = [r \in Regions |-> <<>>]
    /\ pc = "collect"

\* requests.get answers and the body parses: the try block runs to its return
GetOk ==
    /\ call.state = "requesting"
    /\ \E payload \in Payloads :
          call' = [call EXCEPT !.state = "returned",
                               !.result = Extracted(payload),
                               !.log = Append(@, GetEvent(call.attempt, "", payload))]
    /\ UNCHANGED <<announced, fut, collected, all_networks, final_networks, idx,
                   region_prefixes, ridx, written, pc>>

\* the try block raises: the handler, or the exception leaves fetch_prefixes
GetFails ==
    /\ call.state = "requesting"
    /\ \E exc \in Exceptions :
          LET tried == Append(call.log, GetEvent(call.attempt, exc, <<>>))
          IN  call' =
                IF ~ CaughtByFetch(exc)
                THEN [call EXCEPT !.state = "raised", !.log = tried]
                ELSE IF SleepsBeforeRetry(call.attempt)
                THEN [call EXCEPT
                        !.state = "sleeping",
                        !.log = Append(tried,
                                       SleepEvent(call.attempt,
                                                  wait_seconds(call.attempt)))]
                ELSE IF call.attempt < max_retries
                THEN [call EXCEPT !.attempt = @ + 1, !.log = tried]
                ELSE [call EXCEPT !.state = "returned", !.result = <<>>, !.log = tried]
    /\ UNCHANGED <<announced, fut, collected, all_networks, final_networks, idx,
                   region_prefixes, ridx, written, pc>>

\* time.sleep returns: the next iteration of the loop, or return [] after it
SleepEnds ==
    /\ call.state = "sleeping"
    /\ call' = IF call.attempt < max_retries
               THEN [call EXCEPT !.state = "requesting", !.attempt = @ + 1]
               ELSE [call EXCEPT !.state = "returned", !.result = <<>>]
    /\ UNCHANGED <<announced, fut, collected, all_networks, final_networks, idx,
                   region_prefixes, ridx, written, pc>>

NextFetch ==
    \/ GetOk
    \/ GetFails
    \/ SleepEnds

SpecFetch == InitFetch /\ [][NextFetch]_vars

\* ------------------------------------------------------------------ claims
\* the resolver loop has processed every entry
Resolved == pc \in {"resolve", "write", "done"} /\ idx > Len(all_networks)

\* the file main wrote for a region
FileOf(r) == written[r][Len(written[r])]

\* the blocks of a file, parsed back
FileNets(file) == {IPNetwork(s) : s \in Range(file.v4) \cup Range(file.v6)}

AddrsOfNets(nets) == UNION {Addrs(n) : n \in nets}

InputAddrs == AddrsOfNets({all_networks[i].net : i \in DOMAIN all_networks})

OutputAddrs == UNION {AddrsOfNets(FileNets(FileOf(r))) : r \in Regions}

\* C1: once the resolver loop has processed every entry, no two settled entries
\* of different regions and the same family have intersecting address ranges.
C1_NoCrossRegionOverlap ==
    Resolved =>
        \A i, j \in DOMAIN final_networks :
            (/\ final_networks[i].region # final_networks[j].region
             /\ final_networks[i].net.version = final_networks[j].net.version)
            => Addrs(final_networks[i].net) \cap Addrs(final_networks[j].net) = {}

\* C2: the union of the address ranges of all blocks written, over all regions,
\* equals the union of the address ranges of all input networks.
C2_CoveragePreserved ==
    pc = "done" => OutputAddrs = InputAddrs

\* a run in which a candidate was carved and a merge joined blocks
C2_Witness ==
    /\ pc = "done"
    /\ \E i \in DOMAIN final_networks :
          \A j \in DOMAIN all_networks : Str(all_networks[j].net) # Str(final_networks[i].net)
    /\ \E r \in Regions :
          Len(FileOf(r).v4) + Len(FileOf(r).v6) < Len(region_prefixes[r])
    /\ InputAddrs # {}

\* the arrival orders of the entries of a sorted list
Arrivals(seq) ==
    {p \in [1..Len(seq) -> Range(seq)] :
        /\ Contiguous(p)
        /\ \A e \in Range(seq) :
              Cardinality({i \in DOMAIN p : p[i] = e})
                = Cardinality({i \in DOMAIN seq : seq[i] = e})}

Files == [r \in Regions |-> FileOf(r)]

\* C3: runs whose entries are equal as a set but arrive in a different order
\* write identical ordered per-region lists.
C3_Deterministic ==
    pc = "done" => \A p \in Arrivals(all_networks) : Pipeline(p) = Files

\* the per-region output taken as new input, tagged with the region of its list
OutputAsInput(files) ==
    Concat([k \in 1..Len(RegionOrder) |->
              LET r == RegionOrder[k]
                  lines == files[r].v4 \o files[r].v6
              IN  [i \in 1..Len(lines) |-> Entry(IPNetwork(lines[i]), r, AsnOf(r))]])

\* C4: running the resolver and the merger on their own output yields the same
\* per-region block lists.
C4_Idempotent ==
    pc = "done" => Pipeline(OutputAsInput(Files)) = Files

\* the candidate about to be processed duplicates an earlier entry of another region
LaterDuplicate ==
    /\ pc = "resolve"
    /\ idx <= Len(all_networks)
    /\ \E j \in 1..(idx - 1) :
          /\ cidr(all_networks[j].net) = cidr(all_networks[idx].net)
          /\ all_networks[j].region # all_networks[idx].region

\* C5: of two entries with identical family, base address and prefix length but
\* different regions, the one processed later adds no entry to settled.
C5_FirstClaimWins ==
    [][LaterDuplicate => final_networks' = final_networks]_vars

Sibling(x, y) ==
    /\ x.version = y.version
    /\ x.prefixlen = y.prefixlen
    /\ x.prefixlen > 0
    /\ x # y
    /\ first(x) \div Pow2(width(x.version) - x.prefixlen + 1)
         = first(y) \div Pow2(width(y.version) - y.prefixlen + 1)

MinimalList(lines, version) ==
    /\ \A i \in DOMAIN lines : IPNetwork(lines[i]).version = version
    /\ \A i, j \in DOMAIN lines :
          i # j => /\ ~ Contains(IPNetwork(lines[i]), IPNetwork(lines[j]))
                   /\ ~ Sibling(IPNetwork(lines[i]), IPNetwork(lines[j]))

\* C6: the per-family lists of split_and_merge hold no block contained in another
\* and no two sibling blocks that form a complete parent; the IPv4 list holds only
\* IPv4 blocks and the IPv6 list only IPv6 blocks.
C6_MergeMinimal ==
    \A r \in Regions :
        written[r] # <<>> => /\ MinimalList(FileOf(r).v4, 4)
                             /\ MinimalList(FileOf(r).v6, 6)

\* a region whose settled list held nested or sibling blocks of both families
C6_Witness ==
    \E r \in Regions :
        /\ written[r] # <<>>
        /\ Len(FileOf(r).v4) > 0
        /\ Len(FileOf(r).v6) > 0
        /\ Len(FileOf(r).v4) + Len(FileOf(r).v6) < Len(region_prefixes[r])

\* C7: fetch_prefixes never propagates an exception: no fetch task ends raised.
C7_FetchNeverRaises ==
    \A a \in ASNs : fut[a].state # "raised"

Finished(a) == fut[a].state \in {"returned", "raised"}

EntriesOfAsn(a) == {i \in DOMAIN all_networks : all_networks[i].asn = a}

\* C8: a failed fetch never aborts the run: the failed ASN contributes no entry,
\* the entries of every other ASN are collected and resolved, and main writes
\* exactly one file for every region.
C8_FailedFetchTolerated ==
    /\ pc # "aborted"
    /\ \A a \in collected :
          (fut[a].state = "raised" \/ fut[a].result = <<>>) => EntriesOfAsn(a) = {}
    /\ pc # "collect" =>
          \A a \in ASNs :
              fut[a].state = "returned" =>
                  \A k \in DOMAIN fut[a].result :
                      ~ IPNetworkRaises(fut[a].result[k]) =>
                          \E i \in EntriesOfAsn(a) :
                              Str(all_networks[i].net) = fut[a].result[k]
    /\ Resolved =>
          AddrsOfNets({final_networks[i].net : i \in DOMAIN final_networks}) = InputAddrs
    /\ \A r \in Regions : Len(written[r]) <= 1
    /\ pc = "done" => \A r \in Regions : Len(written[r]) = 1

\* a finished run with a raised task, a region left without blocks although one
\* of its fetches returned prefixes, and a region with blocks
C8_Witness ==
    /\ pc = "done"
    /\ \E a \in ASNs : fut[a].state = "raised"
    /\ \E a \in ASNs : fut[a].state = "returned" /\ fut[a].result = <<>> /\ announced[a] # <<>>
    /\ \E r \in Regions :
          /\ FileOf(r).v4 = <<>> /\ FileOf(r).v6 = <<>>
          /\ \E a \in ASNs : RegionOf(a) = r /\ EntriesOfAsn(a) # {}
    /\ \E r \in Regions : FileOf(r).v4 # <<>>

\* C9: the sort and every carving decision of the resolver happen only after
\* every submitted fetch task has finished and has been collected.
C9_JoinBarrier ==
    (pc # "collect" \/ final_networks # <<>>) =>
        /\ \A a \in ASNs : Finished(a)
        /\ collected = ASNs

\* the resolver at work after tasks ended in each of the three ways
C9_Witness ==
    /\ pc = "resolve"
    /\ final_networks # <<>>
    /\ \E a \in ASNs : fut[a].state = "raised"
    /\ \E a \in ASNs : fut[a].state = "returned" /\ fut[a].result = <<>> /\ announced[a] # <<>>
    /\ \E a \in ASNs : fut[a].state = "returned" /\ fut[a].result # <<>>

\* C10: a malformed prefix string yields no entry and every well-formed string of
\* the same list and of every other list becomes an entry, once per occurrence.
C10_MalformedSkipped ==
    \A a \in collected :
        fut[a].state = "returned" =>
            LET result == fut[a].result
                WellFormed == {k \in DOMAIN result : ~ IPNetworkRaises(result[k])}
            IN  /\ Cardinality(EntriesOfAsn(a)) = Cardinality(WellFormed)
                /\ \A k \in DOMAIN result :
                      Cardinality({i \in EntriesOfAsn(a) :
                                      /\ Str(all_networks[i].net) = result[k]
                                      /\ all_networks[i].region = RegionOf(a)})
                        = IF k \in WellFormed
                          THEN Cardinality({j \in DOMAIN result : result[j] = result[k]})
                          ELSE 0

\* a collected list with a malformed string before a well-formed one
C10_Witness ==
    /\ pc # "collect"
    /\ \E a \in collected :
          /\ fut[a].state = "returned"
          /\ \E j, k \in DOMAIN fut[a].result :
                /\ j < k
                /\ IPNetworkRaises(fut[a].result[j])
                /\ ~ IPNetworkRaises(fut[a].result[k])
                /\ \E i \in EntriesOfAsn(a) : Str(all_networks[i].net) = fut[a].result[k]
    /\ \E a, b \in collected : a # b /\ EntriesOfAsn(a) # {} /\ EntriesOfAsn(b) # {}

\* the candidate the resolver loop takes next
TakesCandidate == pc = "resolve" /\ idx <= Len(all_networks)

\* the carving set of the next candidate, by address ranges: the settled entries
\* of another region whose range lies inside the candidate's
CarvingSet ==
    {i \in DOMAIN final_networks :
        /\ final_networks[i].region # all_networks[idx].region
        /\ Addrs(final_networks[i].net) \subseteq Addrs(all_networks[idx].net)}

\* C11: for a candidate with a non-empty carving set, the blocks appended to
\* settled cover exactly the candidate's range minus the ranges of all members
\* of the carving set.
C11_CarveExact ==
    [][(TakesCandidate /\ CarvingSet # {}) =>
          AddrsOfNets({final_networks'[i].net :
                          i \in (Len(final_networks) + 1)..Len(final_networks')})
            = Addrs(all_networks[idx].net)
                \ AddrsOfNets({final_networks[i].net : i \in CarvingSet})]_vars

\* C12: processing a candidate leaves every settled entry unchanged and in place,
\* and a candidate that contains no settled entry of another region is appended
\* exactly as given.
C12_AppendOnly ==
    [][TakesCandidate =>
          /\ Len(final_networks') >= Len(final_networks)
          /\ SubSeq(final_networks', 1, Len(final_networks)) = final_networks
          /\ CarvingSet = {} =>
                final_networks' = Append(final_networks, all_networks[idx])]_vars

\* a candidate was appended as given although it contains or equals a settled
\* entry of its own region
C12_Witness ==
    /\ pc = "resolve"
    /\ idx > 1
    /\ Len(final_networks) >= 2
    /\ final_networks[Len(final_networks)] = all_networks[idx - 1]
    /\ \E i \in 1..(Len(final_networks) - 1) :
          /\ final_networks[i].region = all_networks[idx - 1].region
          /\ Addrs(final_networks[i].net) \subseteq Addrs(all_networks[idx - 1].net)

\* C13: the resolver terminates: the loop over the candidates ends after one
\* iteration for each of them and gather_prefixes returns a finite settled list.
C13_ResolverTerminates ==
    <>(/\ pc \in {"write", "done"}
       /\ idx = Len(all_networks) + 1
       /\ Len(final_networks) <= Len(all_networks) * (2 * (BitsV4 + BitsV6) + 1))

\* the resolver has ended on a full list after carving a candidate
C13_Witness ==
    /\ pc = "write"
    /\ Len(all_networks) = MaxEntries
    /\ \E i \in DOMAIN final_networks :
          \A j \in DOMAIN all_networks : all_networks[j].net # final_networks[i].net

\* the requests and the sleeps of the call, in order
Gets == SelectSeq(call.log, LAMBDA e : e.kind = "get")

Sleeps == SelectSeq(call.log, LAMBDA e : e.kind = "sleep")

\* the number of requests made up to position i of the log
GetsUpTo(i) == Len(SelectSeq(SubSeq(call.log, 1, i), LAMBDA e : e.kind = "get"))

\* C14: one call of fetch_prefixes makes at most max_retries requests, numbered
\* in order; a successful request is the last event and its extracted prefixes
\* are returned; a sleep comes only right after a failed request that is not the
\* last allowed one and right before the next request, and lasts 1 s after the
\* first failure and 2 s after the second; after the final failed request the
\* call returns the empty list without sleeping.
C14_BoundedRetryBackoff ==
    LET log == call.log
    IN  /\ Len(Gets) <= max_retries
        /\ \A k \in DOMAIN Gets : Gets[k].attempt = k
        /\ \A i \in DOMAIN log :
              /\ (log[i].kind = "get" /\ log[i].exc = "") =>
                    /\ i = Len(log)
                    /\ call.state = "returned"
                    /\ call.result = Extracted(log[i].payload)
              /\ log[i].kind = "sleep" =>
                    /\ i > 1
                    /\ log[i - 1].kind = "get"
                    /\ log[i - 1].exc # ""
                    /\ GetsUpTo(i) < max_retries
                    /\ IF i = Len(log)
                       THEN call.state \in {"sleeping", "requesting"}
                       ELSE log[i + 1].kind = "get"
              /\ (log[i].kind = "get" /\ i > 1) => log[i - 1].kind = "sleep"
        /\ Len(Sleeps) <= 2
        /\ \A k \in DOMAIN Sleeps : Sleeps[k].seconds = <<1, 2>>[k]
        /\ (call.state = "returned" /\ log[Len(log)].exc # "") =>
              /\ Len(Gets) = max_retries
              /\ log[Len(log)].kind = "get"
              /\ call.result = <<>>
        /\ call.state = "sleeping" => log[Len(log)].kind = "sleep"

\* the third request succeeds after sleeps of 1 s and 2 s, and an entry without
\* a prefix string is left out of the returned list
C14_Witness ==
    /\ call.state = "returned"
    /\ Len(Gets) = max_retries
    /\ Len(Sleeps) = max_retries - 1
    /\ call.log[Len(call.log)].exc = ""
    /\ call.result # <<>>
    /\ call.result # call.log[Len(call.log)].payload

\* C15: when a candidate is taken from the sorted list, every settled entry of
\* its family, remainder blocks included, has a prefix length at least the
\* candidate's, and every settled entry whose range intersects the candidate's
\* range lies inside it and passes the containment test of the overlap search.
C15_SortedSufficient ==
    TakesCandidate =>
        \A i \in DOMAIN final_networks :
            final_networks[i].net.version = all_networks[idx].net.version =>
                /\ final_networks[i].net.prefixlen >= all_networks[idx].net.prefixlen
                /\ Addrs(final_networks[i].net) \cap Addrs(all_networks[idx].net) # {} =>
                      /\ Addrs(final_networks[i].net) \subseteq Addrs(all_networks[idx].net)
                      /\ Contains(all_networks[idx].net, final_networks[i].net)

\* a candidate is taken while a remainder block of an earlier carve, more
\* specific than the candidate, lies inside its range
C15_Witness ==
    /\ TakesCandidate
    /\ \E i \in DOMAIN final_networks :
          /\ \A j \in DOMAIN all_networks : all_networks[j].net # final_networks[i].net
          /\ final_networks[i].net.prefixlen > all_networks[idx].net.prefixlen
          /\ Addrs(final_networks[i].net) \subseteq Addrs(all_networks[idx].net)

\* the addresses the ASNs of a region announced
RegionInputAddrs(r) ==
    AddrsOfNets({all_networks[j].net :
                    j \in {k \in DOMAIN all_networks : all_networks[k].region = r}})

\* C16: no region gains an address. Every settled entry lies inside a candidate
\* already processed that has the same region and ASN, so a remainder block
\* keeps the region of the candidate it was carved from; and the blocks written
\* to a region's file cover only addresses that the region's ASNs announced.
C16_NoGain ==
    /\ \A i \in DOMAIN final_networks :
          \E j \in 1..(idx - 1) :
              /\ all_networks[j].region = final_networks[i].region
              /\ all_networks[j].asn = final_networks[i].asn
              /\ Addrs(final_networks[i].net) \subseteq Addrs(all_networks[j].net)
    /\ \A r \in Regions :
          written[r] # <<>> =>
              AddrsOfNets(FileNets(FileOf(r))) \subseteq RegionInputAddrs(r)

\* every file is written and a region that was carved keeps a non-empty part
\* of what it announced
C16_Witness ==
    /\ pc = "done"
    /\ \E r \in Regions :
          /\ AddrsOfNets(FileNets(FileOf(r))) # {}
          /\ AddrsOfNets(FileNets(FileOf(r))) # RegionInputAddrs(r)
          /\ \E i \in DOMAIN final_networks :
                /\ final_networks[i].region = r
                /\ \A j \in DOMAIN all_networks :
                      all_networks[j].net # final_networks[i].net

====
